---- MODULE Spec2Model ----
(***************************************************************************)
(* The tool-invocation server of src/src/index.ts (AWSEKSServer) with the  *)
(* control-plane facade EKSManager (src/unnamed/part_001) and the cluster  *)
(* inspector K8sClient (src/unnamed/part_000).                             *)
(*                                                                         *)
(* Tool calls run as JavaScript async functions on one event loop: the     *)
(* code between two awaits is one atomic step.  An action of this module   *)
(* is one such step of one in-flight call; the replies of the external     *)
(* services (control plane, identity service, cluster API) are chosen      *)
(* nondeterministically.                                                   *)
(*                                                                         *)
(* eksClient.config.region is read as the configured region string, as    *)
(* the source's cast (`as string`) reads it.                               *)
(***************************************************************************)
EXTENDS Integers, Sequences, FiniteSets, TLC

(* ------------------------------------------------------------------ *)
(* Bounds                                                              *)
(* ------------------------------------------------------------------ *)

\* Number of tool calls that can be in flight at the same time.
MaxCalls == 2

\* Largest number of cluster names one enumeration returns.
MaxClusters == 2

Calls == 1 .. MaxCalls

(* ------------------------------------------------------------------ *)
(* JSON values of a request's arguments                                *)
(* ------------------------------------------------------------------ *)

Undef == [t |-> "undefined", s |-> "", a |-> <<>>]

Str(x) == [t |-> "string", s |-> x, a |-> <<>>]

\* A JSON number, e.g. 42.
Num == [t |-> "number", s |-> "", a |-> <<>>]

Arr(xs) == [t |-> "array", s |-> "", a |-> xs]

\* JavaScript's typeof.
TypeOf(v) ==
  CASE v.t = "string" -> "string"
    [] v.t = "number" -> "number"
    [] v.t = "undefined" -> "undefined"
    [] OTHER -> "object"

\* JavaScript truthiness (the operand of `&&`, `||`, `!`).
Truthy(v) ==
  CASE v.t = "string" -> v.s # ""
    [] v.t = "undefined" -> FALSE
    [] v.t = "null" -> FALSE
    [] OTHER -> TRUE

IsArray(v) == v.t = "array"

\* arr.every(x => typeof x === 'string')
EveryString(v) == \A i \in DOMAIN v.a : TypeOf(v.a[i]) = "string"

\* The argument fields the five tools read.
Fields ==
  {"clusterName", "region", "kubernetesVersion", "roleArn", "subnetIds",
   "securityGroupIds", "publicAccessCidrs", "namespace"}

\* request.params.arguments: an object (t = "object") with its fields, a
\* missing field being undefined; or undefined, null or a string.
NoFields == [f \in Fields |-> Undef]

ArgsOf(tag, fs) == [t |-> tag, f |-> fs]

ObjArgs(fs) == ArgsOf("object", fs)

Field(args, name) == args.f[name]

With(args, name, v) == [args EXCEPT !.f[name] = v]

(* ------------------------------------------------------------------ *)
(* Request Validator                                                   *)
(* ------------------------------------------------------------------ *)

\* typeof args === 'object' && args !== null
IsNonNullObject(args) ==
  /\ args.t \in {"object", "null"}
  /\ args.t # "null"

\* args.x === undefined || typeof args.x === 'string'
OptionalString(args, name) ==
  \/ Field(args, name).t = "undefined"
  \/ TypeOf(Field(args, name)) = "string"

\* args.x === undefined || (Array.isArray(args.x) && args.x.every(string))
OptionalStringArray(args, name) ==
  \/ Field(args, name).t = "undefined"
  \/ (IsArray(Field(args, name)) /\ EveryString(Field(args, name)))

isValidCreateClusterArgs(args) ==
  /\ IsNonNullObject(args)
  /\ TypeOf(Field(args, "clusterName")) = "string"
  /\ TypeOf(Field(args, "region")) = "string"
  /\ TypeOf(Field(args, "kubernetesVersion")) = "string"
  /\ TypeOf(Field(args, "roleArn")) = "string"
  /\ IsArray(Field(args, "subnetIds"))
  /\ EveryString(Field(args, "subnetIds"))
  /\ OptionalStringArray(args, "securityGroupIds")
  /\ OptionalStringArray(args, "publicAccessCidrs")

isValidClusterStatusArgs(args) ==
  /\ IsNonNullObject(args)
  /\ TypeOf(Field(args, "clusterName")) = "string"
  /\ OptionalString(args, "region")

isValidDeleteClusterArgs(args) ==
  /\ IsNonNullObject(args)
  /\ TypeOf(Field(args, "clusterName")) = "string"
  /\ OptionalString(args, "region")

isValidListDeploymentsArgs(args) ==
  /\ IsNonNullObject(args)
  /\ TypeOf(Field(args, "clusterName")) = "string"
  /\ OptionalString(args, "region")
  /\ OptionalString(args, "namespace")

(* ------------------------------------------------------------------ *)
(* Tool catalogue (the ListTools handler)                              *)
(* ------------------------------------------------------------------ *)

Descriptor(n, props, req) == [name |-> n, properties |-> props, required |-> req]

Catalogue ==
  << Descriptor("list_eks_clusters", {}, <<>>),
     Descriptor("get_eks_cluster_status", {"clusterName", "region"},
                <<"clusterName">>),
     Descriptor("create_eks_cluster",
                {"clusterName", "region", "kubernetesVersion", "roleArn",
                 "subnetIds", "securityGroupIds", "publicAccessCidrs"},
                <<"clusterName", "region", "kubernetesVersion", "roleArn",
                  "subnetIds">>),
     Descriptor("delete_eks_cluster", {"clusterName", "region"},
                <<"clusterName">>),
     Descriptor("list_cluster_deployments",
                {"clusterName", "region", "namespace"}, <<"clusterName">>) >>

\* Mutant of SwitchCases: the switch has no delete_eks_cluster case.
SwitchCasesWithoutDelete ==
  {"list_eks_clusters", "get_eks_cluster_status", "create_eks_cluster",
   "list_cluster_deployments"}

\* The case labels of the CallTool handler's switch.
SwitchCases ==
  {"list_eks_clusters", "get_eks_cluster_status", "create_eks_cluster",
   "delete_eks_cluster", "list_cluster_deployments"}

\* Mutant of ArgsAccepted: the create case applies the status check.
ArgsAcceptedStatusCheckForCreate(name, args) ==
  CASE name = "get_eks_cluster_status" -> isValidClusterStatusArgs(args)
    [] name = "create_eks_cluster" -> isValidClusterStatusArgs(args)
    [] name = "delete_eks_cluster" -> isValidDeleteClusterArgs(args)
    [] name = "list_cluster_deployments" -> isValidListDeploymentsArgs(args)
    [] OTHER -> TRUE

\* The argument check the switch applies under each case label (none for
\* list_eks_clusters).
ArgsAccepted(name, args) ==
  CASE name = "get_eks_cluster_status" -> isValidClusterStatusArgs(args)
    [] name = "create_eks_cluster" -> isValidCreateClusterArgs(args)
    [] name = "delete_eks_cluster" -> isValidDeleteClusterArgs(args)
    [] name = "list_cluster_deployments" -> isValidListDeploymentsArgs(args)
    [] OTHER -> TRUE

(* ------------------------------------------------------------------ *)
(* Requests a caller can send                                          *)
(* ------------------------------------------------------------------ *)

\* Tool names that are no case label.
UnknownNames == {"list_pods", "LIST_EKS_CLUSTERS"}

\* The names a client calls: those the catalogue lists and unknown ones.
ToolNames == {Catalogue[i].name : i \in DOMAIN Catalogue} \cup UnknownNames

InitialRegions == {"us-east-1", "eu-west-1"}

NonObjectArgs ==
  {ArgsOf("undefined", NoFields), ArgsOf("null", NoFields),
   ArgsOf("string", NoFields)}

NameRegion(cn, r) ==
  ObjArgs([NoFields EXCEPT !["clusterName"] = cn, !["region"] = r])

ClusterNameVals == {Undef, Num, Str(""), Str("c1")}

RegionVals == {Undef, Num, Str(""), Str("us-east-1"), Str("eu-west-1")}

NamespaceVals ==
  {Undef, Num, Str(""), Str("all"), Str("kube-system"), Str("default")}

\* Every clusterName with no region, and every region with a good name.
StatusArgs ==
  NonObjectArgs
    \cup {NameRegion(cn, Undef) : cn \in ClusterNameVals}
    \cup {NameRegion(Str("c1"), r) : r \in RegionVals}

DeploymentsArgs ==
  StatusArgs
    \cup {With(NameRegion(Str("c1"), Undef), "namespace", ns) :
            ns \in NamespaceVals}

CreateBase(r) ==
  ObjArgs([NoFields EXCEPT
             !["clusterName"] = Str("c1"),
             !["region"] = Str(r),
             !["kubernetesVersion"] = Str("1.28"),
             !["roleArn"] = Str("arn:aws:iam::1:role/eks"),
             !["subnetIds"] = Arr(<<Str("subnet-1"), Str("subnet-2")>>)])

StringArrayVals ==
  {Undef, Str("x"), Arr(<<>>), Arr(<<Num>>), Arr(<<Str("x"), Num>>),
   Arr(<<Str("10.0.0.0/8"), Str("192.168.0.0/16")>>)}

\* A valid request per region, and each field of it replaced in turn.
CreateArgs ==
  NonObjectArgs
    \cup {CreateBase(r) : r \in InitialRegions}
    \cup {With(CreateBase("eu-west-1"), fld, v) :
            fld \in {"clusterName", "region", "kubernetesVersion", "roleArn"},
            v \in {Undef, Num}}
    \cup {CreateBase("")}
    \cup {With(CreateBase("eu-west-1"), "clusterName", Str(""))}
    \cup {With(CreateBase("eu-west-1"), fld, v) :
            fld \in {"subnetIds", "securityGroupIds", "publicAccessCidrs"},
            v \in StringArrayVals}

ArgsFor(name) ==
  CASE name \in {"get_eks_cluster_status", "delete_eks_cluster"} -> StatusArgs
    [] name = "create_eks_cluster" -> CreateArgs
    [] name = "list_cluster_deployments" -> DeploymentsArgs
    [] OTHER -> {ObjArgs(NoFields), NameRegion(Str("c1"), Str("eu-west-1"))}

(* ------------------------------------------------------------------ *)
(* Errors, completions and response envelopes                          *)
(* ------------------------------------------------------------------ *)

\* A message is the sequence of the pieces its template concatenates.
NoError == [mcp |-> FALSE, isError |-> FALSE, code |-> "", message |-> <<>>]

\* new Error(msg)
Error(msg) == [mcp |-> FALSE, isError |-> TRUE, code |-> "", message |-> msg]

\* A thrown value that is no instance of Error.
NonErrorValue == [mcp |-> FALSE, isError |-> FALSE, code |-> "", message |-> <<>>]

\* new McpError(code, msg)
McpError(code, msg) == [mcp |-> TRUE, isError |-> TRUE, code |-> code, message |-> msg]

\* error instanceof Error ? error.message : fallback
MessageOr(e, fallback) == IF e.isError THEN e.message ELSE <<fallback>>

\* How an async function ends: it returns a value or throws.
NotRun == [kind |-> "none", value |-> <<>>, error |-> NoError]

Return(v) == [kind |-> "return", value |-> v, error |-> NoError]

Throw(e) == [kind |-> "throw", value |-> <<>>, error |-> e]

\* What the caller of callTool receives: a result envelope
\* {content: [{type: 'text', text}], isError?} or a protocol error.
NoOutcome ==
  [kind |-> "none", code |-> "", message |-> <<>>, isError |-> "absent",
   payload |-> <<>>]

\* {content: [{type: 'text', text: JSON.stringify(payload, null, 2)}]}
Envelope(payload) ==
  [kind |-> "result", code |-> "", message |-> <<>>, isError |-> "absent",
   payload |-> payload]

\* {content: [{type: 'text', text: `Error: ${msg}`}], isError: true}
ErrorEnvelope(msg) ==
  [kind |-> "result", code |-> "", message |-> <<"Error: ">> \o msg,
   isError |-> "true", payload |-> <<>>]

ProtocolError(e) ==
  [kind |-> "error", code |-> e.code, message |-> e.message,
   isError |-> "absent", payload |-> <<>>]

\* The try/catch of a handleX method around its EKSManager/K8sClient call.
HandlerWrap(prefix, op) ==
  IF op.kind = "throw"
    THEN Throw(McpError("InternalError",
                        <<prefix>> \o MessageOr(op.error, "Unknown error")))
    ELSE Return(Envelope(op.value))

handleListClusters(op) == HandlerWrap("Failed to list clusters: ", op)

handleGetClusterStatus(op) == HandlerWrap("Failed to get cluster status: ", op)

handleCreateCluster(op) == HandlerWrap("Failed to create cluster: ", op)

handleDeleteCluster(op) == HandlerWrap("Failed to delete cluster: ", op)

handleListDeployments(op) == HandlerWrap("Failed to list deployments: ", op)

\* Mutant of CallToolCatch: every thrown error becomes an isError envelope.
CallToolCatchWithoutRethrow(done) ==
  IF done.kind = "throw"
    THEN ErrorEnvelope(MessageOr(done.error, "Unknown error occurred"))
    ELSE done.value

\* The catch of the CallTool handler: a McpError is rethrown, anything
\* else becomes an isError envelope.
CallToolCatch(done) ==
  IF done.kind = "throw"
    THEN IF done.error.mcp
           THEN ProtocolError(done.error)
           ELSE ErrorEnvelope(MessageOr(done.error, "Unknown error occurred"))
    ELSE done.value

(* ------------------------------------------------------------------ *)
(* Replies of the external services                                    *)
(* ------------------------------------------------------------------ *)

\* What a rejected request throws.
Failures == {Error(<<"AccessDeniedException">>)}

\* The names the control plane enumerates, in its order.
ClusterNameAt(i) == "c" \o ToString(i)

\* The status the control plane holds for each cluster.
StatusOf(n) == IF n = "c1" THEN "ACTIVE" ELSE "UPDATING"

NoCluster == [name |-> "", status |-> "", endpoint |-> "", certificateAuthority |-> ""]

\* The Cluster object of a DescribeCluster or CreateCluster response.
Cluster(n, st) ==
  [name |-> n, status |-> st, endpoint |-> "https://" \o n,
   certificateAuthority |-> "ca-" \o n]

Reply(k, e, cl, ns, its) ==
  [kind |-> k, error |-> e, cluster |-> cl, names |-> ns, items |-> its]

NoReply == Reply("none", NoError, NoCluster, <<>>, <<>>)

Rejections == {Reply("throw", e, NoCluster, <<>>, <<>>) : e \in Failures}

\* response.cluster is undefined
EmptyReply == Reply("empty", NoError, NoCluster, <<>>, <<>>)

\* DescribeCluster
DescribeReplies(n) ==
  Rejections \cup {EmptyReply}
    \cup {Reply("ok", NoError, Cluster(n, StatusOf(n)), <<>>, <<>>)}

\* CreateCluster
CreateReplies(n) ==
  Rejections \cup {EmptyReply}
    \cup {Reply("ok", NoError, Cluster(n, "CREATING"), <<>>, <<>>)}

DeleteReplies == Rejections \cup {Reply("ok", NoError, NoCluster, <<>>, <<>>)}

\* The enumerations of at most MaxClusters clusters.
NameLists == {[i \in 1 .. k |-> ClusterNameAt(i)] : k \in 0 .. MaxClusters}

\* response.clusters is undefined in an EmptyReply.
ListReplies ==
  Rejections \cup {EmptyReply}
    \cup {Reply("ok", NoError, NoCluster, ns, <<>>) : ns \in NameLists}

(* ------------------------------------------------------------------ *)
(* EKSManager: the parts that do not touch the clients                 *)
(* ------------------------------------------------------------------ *)

NoDetails == [name |-> "", status |-> "", endpoint |-> ""]

\* Of the fields modelled, mapClusterToDetails copies name, status and
\* endpoint; it copies no certificateAuthority.
mapClusterToDetails(cluster) ==
  [name |-> cluster.name, status |-> cluster.status, endpoint |-> cluster.endpoint]

\* new EKSClient({ region })
NewClient(r) == [region |-> r, credentials |-> "default"]

\* Mutant of SwitchIfProvided: the operation keeps the client it finds.
SwitchNever(client, region) == client

\* if (region && region !== this.eksClient.config.region)
\*   this.eksClient = new EKSClient({ region })
SwitchIfProvided(client, region) ==
  IF Truthy(region) /\ region.s # client.region THEN NewClient(region.s) ELSE client

\* Mutant of SwitchIfDifferent: createCluster keeps the client it finds.
SwitchIfDifferentKeeps(client, region) == client

\* if (request.region !== this.eksClient.config.region)
\*   this.eksClient = new EKSClient({ region: request.region })
SwitchIfDifferent(client, region) ==
  IF region.s # client.region THEN NewClient(region.s) ELSE client

\* getClusterStatus from the reply to its DescribeCluster request on.
getClusterStatusEnd(clusterName, reply) ==
  CASE reply.kind = "throw" ->
         Throw(Error(<<"Failed to get cluster status: ">>
                       \o MessageOr(reply.error, "Unknown error")))
    [] reply.kind = "empty" ->
         Throw(Error(<<"Failed to get cluster status: ">>
                       \o <<"Cluster ", clusterName, " not found">>))
    [] OTHER -> Return(mapClusterToDetails(reply.cluster))

OperationStatus(st, msg, has, details) ==
  [status |-> st, message |-> msg, hasDetails |-> has, clusterDetails |-> details]

\* Mutant of createClusterEnd: the missing-cluster error escapes the catch.
createClusterEndThrowsOnEmpty(clusterName, reply) ==
  CASE reply.kind = "throw" ->
         Return(OperationStatus("FAILURE",
                  <<"Failed to create cluster: ">>
                    \o MessageOr(reply.error, "Unknown error"),
                  FALSE, NoDetails))
    [] reply.kind = "empty" ->
         Throw(Error(<<"Failed to create cluster - no cluster data returned">>))
    [] OTHER ->
         Return(OperationStatus("SUCCESS",
                  <<"Cluster ", clusterName, " creation initiated successfully">>,
                  TRUE, mapClusterToDetails(reply.cluster)))

\* createCluster from the reply to its CreateCluster request on.
createClusterEnd(clusterName, reply) ==
  CASE reply.kind = "throw" ->
         Return(OperationStatus("FAILURE",
                  <<"Failed to create cluster: ">>
                    \o MessageOr(reply.error, "Unknown error"),
                  FALSE, NoDetails))
    [] reply.kind = "empty" ->
         Return(OperationStatus("FAILURE",
                  <<"Failed to create cluster: ",
                    "Failed to create cluster - no cluster data returned">>,
                  FALSE, NoDetails))
    [] OTHER ->
         Return(OperationStatus("SUCCESS",
                  <<"Cluster ", clusterName, " creation initiated successfully">>,
                  TRUE, mapClusterToDetails(reply.cluster)))

\* Mutant of deleteClusterEnd: a successful delete carries cluster details.
deleteClusterEndWithDetails(clusterName, reply) ==
  IF reply.kind = "throw"
    THEN Return(OperationStatus("FAILURE",
                  <<"Failed to delete cluster: ">>
                    \o MessageOr(reply.error, "Unknown error"),
                  FALSE, NoDetails))
    ELSE Return(OperationStatus("SUCCESS",
                  <<"Cluster ", clusterName, " deletion initiated successfully">>,
                  TRUE, mapClusterToDetails(reply.cluster)))

\* deleteCluster from the reply to its DeleteCluster request on.
deleteClusterEnd(clusterName, reply) ==
  IF reply.kind = "throw"
    THEN Return(OperationStatus("FAILURE",
                  <<"Failed to delete cluster: ">>
                    \o MessageOr(reply.error, "Unknown error"),
                  FALSE, NoDetails))
    ELSE Return(OperationStatus("SUCCESS",
                  <<"Cluster ", clusterName, " deletion initiated successfully">>,
                  FALSE, NoDetails))

\* One element of listClusters' result: the describe reply of one
\* enumerated name, read with the client's region at that moment.
ClusterInfo(n, r, st) == [name |-> n, region |-> r, status |-> st]

\* Mutant of listClustersEntry: the callback has no try/catch of its own and
\* reads the response's cluster as it is.
listClustersEntryUnguarded(clusterName, reply, region) ==
  ClusterInfo(reply.cluster.name, region, reply.cluster.status)

listClustersEntry(clusterName, reply, region) ==
  IF reply.kind = "ok"
    THEN ClusterInfo(reply.cluster.name, region, reply.cluster.status)
    ELSE ClusterInfo(clusterName, region, "UNKNOWN")

\* The request objects the commands are built from.
Request(service, command, region, input) ==
  [service |-> service, command |-> command, region |-> region, input |-> input]

NoRegion == "-"

DescribeClusterCommand(clusterName, region) ==
  Request("eks", "DescribeCluster", region, [name |-> clusterName])

DeleteClusterCommand(clusterName, region) ==
  Request("eks", "DeleteCluster", region, [name |-> clusterName])

ListClustersCommand(region) == Request("eks", "ListClusters", region, <<>>)

\* Mutant of CidrsOrDefault: the default list replaces whatever is supplied.
CidrsAlwaysDefault(v) == Arr(<<Str("0.0.0.0/0")>>)

\* request.publicAccessCidrs || ['0.0.0.0/0']
CidrsOrDefault(v) == IF Truthy(v) THEN v ELSE Arr(<<Str("0.0.0.0/0")>>)

CreateClusterCommand(args, region) ==
  Request("eks", "CreateCluster", region,
          [name |-> Field(args, "clusterName").s,
           version |-> Field(args, "kubernetesVersion").s,
           roleArn |-> Field(args, "roleArn").s,
           subnetIds |-> Field(args, "subnetIds"),
           securityGroupIds |-> Field(args, "securityGroupIds"),
           endpointPrivateAccess |-> TRUE,
           endpointPublicAccess |-> TRUE,
           publicAccessCidrs |-> CidrsOrDefault(Field(args, "publicAccessCidrs")),
           loggingTypes |-> <<"api", "audit", "authenticator",
                              "controllerManager", "scheduler">>,
           loggingEnabled |-> TRUE])

\* GetCallerIdentity
IdentityReplies == Rejections \cup {Reply("ok", NoError, NoCluster, <<>>, <<>>)}

\* 1000 * 60, 1000 * 60 * 60, 1000 * 60 * 60 * 24
Minute == 1000 * 60

Hour == 1000 * 60 * 60

Day == 1000 * 60 * 60 * 24

\* new Date().getTime(): the moments at which a result is built, one on a
\* whole second and one a millisecond earlier.
FirstNow == 200000000

Nows == {FirstNow, FirstNow - 1}

\* metadata.creationTimestamp is undefined
NoTimestamp == -1

\* status.containerStatuses: undefined, or the ready flags of its entries.
NoStatuses == [defined |-> FALSE, ready |-> <<>>]

Statuses(rs) == [defined |-> TRUE, ready |-> rs]

\* A pod of the cluster API; namespace "" stands for metadata that
\* carries no namespace, name "" for metadata that carries no name; the
\* creation timestamp is in milliseconds, on a whole second as the
\* cluster API reports it.
Pod(n, ns, statuses, created) ==
  [name |-> n, namespace |-> ns, containerStatuses |-> statuses,
   creationTimestamp |-> created]

\* status.loadBalancer.ingress: undefined, or its entries, each with an ip
\* and a hostname ("" for undefined).
NoIngress == [defined |-> FALSE, items |-> <<>>]

IngressList(xs) == [defined |-> TRUE, items |-> xs]

Ingress(ip, hostname) == [ip |-> ip, hostname |-> hostname]

\* A service of the cluster API; externalIPs <<>> stands for an undefined
\* or empty spec.externalIPs.
Service(n, ns, type, ingress, ips, created) ==
  [name |-> n, namespace |-> ns, type |-> type, ingress |-> ingress,
   externalIPs |-> ips, creationTimestamp |-> created]

PodLists ==
  {<<Pod("web", "default", Statuses(<<TRUE, FALSE, TRUE>>),
         FirstNow - (2 * Day + 3 * Hour)),
     Pod("dns", "kube-system", NoStatuses, FirstNow - 3 * Hour),
     Pod("proxy", "kube-system", Statuses(<<>>), FirstNow - 30 * Minute),
     Pod("job", "", Statuses(<<TRUE>>), NoTimestamp)>>}

\* No service; services of every kind of external address; two services
\* whose load balancer has no ingress yet, one reporting an empty ingress
\* list and one reporting none.
ServiceLists ==
  {<<>>,
   <<Service("kube-dns", "kube-system", "ClusterIP", NoIngress, <<>>,
             FirstNow - Day),
     Service("api", "default", "LoadBalancer",
             IngressList(<<Ingress("203.0.113.10", ""),
                           Ingress("203.0.113.11", "")>>),
             <<>>, FirstNow - Hour),
     Service("web", "default", "LoadBalancer",
             IngressList(<<Ingress("", "lb.example.com")>>),
             <<"198.51.100.7">>, FirstNow - Minute),
     Service("db", "", "LoadBalancer", IngressList(<<Ingress("", "")>>),
             <<>>, FirstNow),
     Service("cache", "kube-system", "ClusterIP", NoIngress,
             <<"198.51.100.1", "198.51.100.2">>, FirstNow + 5000)>>,
   <<Service("queue", "default", "LoadBalancer", IngressList(<<>>),
             <<"198.51.100.9">>, FirstNow - 30 * Minute),
     Service("edge", "kube-system", "LoadBalancer", NoIngress, <<>>,
             FirstNow - 30 * Minute)>>}

PodsReplies ==
  Rejections \cup {Reply("ok", NoError, NoCluster, <<>>, ps) : ps \in PodLists}

ServicesReplies ==
  Rejections \cup {Reply("ok", NoError, NoCluster, <<>>, ss) : ss \in ServiceLists}

(* ------------------------------------------------------------------ *)
(* K8sClient: the parts that do not touch the clients                  *)
(* ------------------------------------------------------------------ *)

\* `k8s-aws-v1.` followed by the base64 of the JSON text of
\* {cluster, region, timestamp}; the timestamp is left out.
generateEKSToken(clusterName, region) ==
  [scheme |-> "k8s-aws-v1.", cluster |-> clusterName, region |-> region]

\* region || 'us-east-1'
RegionOrDefault(region) == IF Truthy(region) THEN region.s ELSE "us-east-1"

\* clusterDetails.certificateAuthority?.data ("" stands for undefined)
CertificateAuthorityData(details) ==
  IF "certificateAuthority" \in DOMAIN details
    THEN details.certificateAuthority
    ELSE ""

NoSession == [server |-> "", certificateAuthorityData |-> "", user |-> "",
              token |-> generateEKSToken("", "")]

\* The kubeconfig configureEKSAuth loads.
configureEKSAuthSession(details, region) ==
  [server |-> details.endpoint,
   certificateAuthorityData |-> CertificateAuthorityData(details),
   user |-> details.name \o "-user",
   token |-> generateEKSToken(details.name, region)]

\* Mutant of targetNamespace: "all" is a namespace like any other.
targetNamespaceNoSentinel(namespace) ==
  IF ~Truthy(namespace) THEN Undef ELSE namespace

\* namespace === 'all' || !namespace ? undefined : namespace
targetNamespace(namespace) ==
  IF (namespace.t = "string" /\ namespace.s = "all") \/ ~Truthy(namespace)
    THEN Undef
    ELSE namespace

\* Mutant of filterByNamespace: the filter also drops the first object it
\* would keep.
filterByNamespaceDroppingFirst(items, target) ==
  IF Truthy(target)
    THEN LET Keep(x) == x.namespace # "" /\ x.namespace = target.s
             kept == SelectSeq(items, Keep)
         IN  IF kept = <<>> THEN kept ELSE Tail(kept)
    ELSE items

\* targetNamespace ? items.filter(x => x.metadata?.namespace === targetNamespace)
\*                 : items
filterByNamespace(items, target) ==
  IF Truthy(target)
    THEN LET Keep(x) == x.namespace # "" /\ x.namespace = target.s
         IN  SelectSeq(items, Keep)
    ELSE items

\* The name and namespace fields of PodInfo and ServiceInfo.
projectObject(x) ==
  [name |-> IF x.name # "" THEN x.name ELSE "unknown",
   namespace |-> IF x.namespace # "" THEN x.namespace ELSE "default"]

\* Mutant of ReadyCount: every container counts as ready.
ReadyCountAll(rs) == Len(rs)

\* statuses.filter(status => status.ready).length
ReadyCount(rs) == Len(SelectSeq(rs, LAMBDA b : b))

getPodReadyStatus(pod) ==
  IF ~pod.containerStatuses.defined
    THEN "0/0"
    ELSE ToString(ReadyCount(pod.containerStatuses.ready)) \o "/"
           \o ToString(Len(pod.containerStatuses.ready))

\* creationTimestamp.toString() and new Date(string): a Date's string
\* form has the precision of a second.
DateOfString(ts) == ts - (ts % 1000)

\* JavaScript's %: the remainder has the sign of the dividend.
JsRem(a, b) == IF a >= 0 THEN a % b ELSE 0 - ((0 - a) % b)

\* Mutant of calculateAge: an age under a day is given in minutes.
calculateAgeWithoutHours(creationTimestamp, now) ==
  IF creationTimestamp = NoTimestamp
    THEN "unknown"
    ELSE LET diffMs == now - DateOfString(creationTimestamp)
             days == diffMs \div Day
             minutes == JsRem(diffMs, Day) \div Minute
         IN  IF days > 0 THEN ToString(days) \o "d"
             ELSE ToString(minutes) \o "m"

calculateAge(creationTimestamp, now) ==
  IF creationTimestamp = NoTimestamp
    THEN "unknown"
    ELSE LET diffMs == now - DateOfString(creationTimestamp)
             days == diffMs \div Day
             hours == JsRem(diffMs, Day) \div Hour
             minutes == JsRem(diffMs, Hour) \div Minute
         IN  IF days > 0 THEN ToString(days) \o "d"
             ELSE IF hours > 0 THEN ToString(hours) \o "h"
             ELSE ToString(minutes) \o "m"

\* externalIPs.join(',')
RECURSIVE JoinWithCommas(_)
JoinWithCommas(xs) ==
  IF xs = <<>> THEN ""
  ELSE IF Len(xs) = 1 THEN xs[1]
  ELSE xs[1] \o "," \o JoinWithCommas(Tail(xs))

\* Reading .ip of ingress[0] when the ingress list is empty.
IngressTypeError ==
  Error(<<"Cannot read properties of undefined (reading 'ip')">>)

getExternalIP(service) ==
  IF service.ingress.defined
    THEN IF service.ingress.items = <<>>
           THEN Throw(IngressTypeError)
           ELSE LET ingress == service.ingress.items[1]
                IN  Return(IF ingress.ip # "" THEN ingress.ip
                           ELSE IF ingress.hostname # "" THEN ingress.hostname
                           ELSE "<pending>")
    ELSE IF Len(service.externalIPs) > 0
           THEN Return(JoinWithCommas(service.externalIPs))
           ELSE Return("<none>")

\* Of PodInfo: name, namespace, ready and age.
projectPod(pod, now) ==
  [name |-> projectObject(pod).name,
   namespace |-> projectObject(pod).namespace,
   ready |-> getPodReadyStatus(pod),
   age |-> calculateAge(pod.creationTimestamp, now)]

\* Of ServiceInfo: name, namespace, type, externalIP and age.
projectService(service, now) ==
  [name |-> projectObject(service).name,
   namespace |-> projectObject(service).namespace,
   type |-> IF service.type # "" THEN service.type ELSE "ClusterIP",
   externalIP |-> getExternalIP(service).value,
   age |-> calculateAge(service.creationTimestamp, now)]

\* { pods, services } when every projection returns.
DeploymentsInfo(podItems, serviceItems, namespace, now) ==
  LET ps == filterByNamespace(podItems, targetNamespace(namespace))
      ss == filterByNamespace(serviceItems, targetNamespace(namespace))
  IN  [pods |-> [i \in DOMAIN ps |-> projectPod(ps[i], now)],
       services |-> [i \in DOMAIN ss |-> projectService(ss[i], now)]]

\* Mutant of listClusterDeploymentsThrow: the catch answers with an empty
\* result.
listClusterDeploymentsSwallow(e) ==
  Return([pods |-> <<>>, services |-> <<>>])

\* The catch of listClusterDeployments.
listClusterDeploymentsThrow(e) ==
  Throw(Error(<<"Failed to list cluster deployments: ">>
                \o MessageOr(e, "Unknown error")))

\* listClusterDeployments from the service list on: filter, then map; a
\* projection that throws is caught by the catch.
listClusterDeploymentsEnd(podItems, serviceItems, namespace, now) ==
  LET ss == filterByNamespace(serviceItems, targetNamespace(namespace))
      thrown == {i \in DOMAIN ss : getExternalIP(ss[i]).kind = "throw"}
  IN  IF thrown # {}
        THEN listClusterDeploymentsThrow(
               getExternalIP(ss[CHOOSE i \in thrown : \A j \in thrown : i <= j]).error)
        ELSE Return(DeploymentsInfo(podItems, serviceItems, namespace, now))

\* getCallerIdentity's catch, then configureEKSAuth's catch.
configureEKSAuthThrow(e) ==
  Error(<<"Failed to configure EKS authentication: ">>
          \o MessageOr(Error(<<"Failed to get caller identity: ">>
                               \o MessageOr(e, "Unknown error")),
                       "Unknown error"))

(* ------------------------------------------------------------------ *)
(* State                                                               *)
(* ------------------------------------------------------------------ *)

VARIABLES
  eksClient,  \* EKSManager.eksClient: its configuration
  stsClient,  \* EKSManager.stsClient: its configuration
  call        \* the requests in flight, one per slot

vars == <<eksClient, stsClient, call>>

\* A slot of `call`:
\*   pc           where the request's async handler is suspended
\*   method       "tools/list" or "tools/call"
\*   name, args   request.params.name and request.params.arguments
\*   sent         the requests the call has sent so far, in order
\*   reconfigured whether the call has replaced eksClient
\*   reply        the external reply the call read last
\*   names        listClusters: response.clusters
\*   pending      listClusters: the describes not yet settled
\*   replies      listClusters: the reply each describe settled with
\*   entries      listClusters: the elements of clusterDetails so far
\*   details      listClusterDeployments: clusterDetails
\*   session      listClusterDeployments: the kubeconfig loaded
\*   pods         listClusterDeployments: podsResponse.body.items
\*   op           how the EKSManager/K8sClient operation ended
\*   outcome      what the caller of callTool receives
IdleCall ==
  [pc |-> "idle", method |-> "", name |-> "", args |-> ArgsOf("undefined", NoFields),
   sent |-> <<>>, reconfigured |-> FALSE, reply |-> NoReply,
   names |-> <<>>, pending |-> {}, replies |-> <<>>, entries |-> <<>>,
   details |-> NoDetails, session |-> NoSession, pods |-> <<>>, now |-> 0,
   op |-> NotRun, outcome |-> NoOutcome]

\* process.env.AWS_REGION || 'us-east-1'
EnvRegions == {Undef, Str(""), Str("eu-west-1")}

\* new EKSManager(): config = { region: process.env.AWS_REGION || 'us-east-1' }
ConstructorConfig(e) == [region |-> RegionOrDefault(e), credentials |-> "default"]

\* new AWSEKSServer(): new EKSManager() builds both clients from one config.
Init ==
  /\ \E e \in EnvRegions :
       /\ eksClient = ConstructorConfig(e)
       /\ stsClient = ConstructorConfig(e)
  /\ call = [c \in Calls |-> IdleCall]

(* ------------------------------------------------------------------ *)
(* Steps                                                               *)
(* ------------------------------------------------------------------ *)

\* this.eksClient.send / this.stsClient.send / coreV1Api.listX
Send(cr, req) == [cr EXCEPT !.sent = Append(@, req)]

\* The operation ended with `op`: the handleX method `handler` wraps it and
\* the CallTool handler's catch decides what the caller receives.
Ended(cr, op, handled) ==
  [cr EXCEPT !.pc = "done", !.op = op, !.outcome = CallToolCatch(handled)]

\* A handler runs from one await to the next without interruption, and
\* the promise reactions that hand a finished handler's response to the
\* transport run before the event loop takes the next request or reply.
NoResponsePending == \A d \in Calls : call[d].pc # "done"

\* { tools: [...] }
ToolsResponse(tools) ==
  [kind |-> "tools", code |-> "", message |-> <<>>, isError |-> "absent",
   payload |-> tools]

\* The ListTools handler.
ListTools(c) ==
  /\ NoResponsePending
  /\ call[c].pc = "idle"
  /\ call' = [call EXCEPT ![c] =
       [IdleCall EXCEPT !.pc = "done", !.method = "tools/list",
                        !.outcome = ToolsResponse(Catalogue)]]
  /\ UNCHANGED <<eksClient, stsClient>>

\* Mutant of UnknownTool: an unknown name is answered with an empty result.
UnknownToolIgnored(cr) == Ended(cr, NotRun, Return(Envelope(<<>>)))

\* The default case of the switch.
UnknownTool(cr) ==
  Ended(cr, NotRun,
        Throw(McpError("MethodNotFound", <<"Unknown tool: ", cr.name>>)))

\* A case whose isValidXArgs check fails.
InvalidArguments(cr) ==
  Ended(cr, NotRun,
        Throw(McpError("InvalidParams", <<"Invalid arguments for ", cr.name>>)))

\* Mutant of ClientFor: no operation reconfigures the client.
ClientUnchanged(name, args, client) == client

\* The client a tool's operation sends on: getClusterStatus and
\* deleteCluster switch when a region is provided, createCluster when the
\* request's region differs, listClusters never.
ClientFor(name, args, client) ==
  CASE name \in {"get_eks_cluster_status", "delete_eks_cluster",
                 "list_cluster_deployments"} ->
         SwitchIfProvided(client, Field(args, "region"))
    [] name = "create_eks_cluster" ->
         SwitchIfDifferent(client, Field(args, "region"))
    [] OTHER -> client

\* The first request of a tool's operation, sent on `client`.
FirstCommand(name, args, client) ==
  CASE name = "list_eks_clusters" -> ListClustersCommand(client.region)
    [] name = "create_eks_cluster" -> CreateClusterCommand(args, client.region)
    [] name = "delete_eks_cluster" ->
         DeleteClusterCommand(Field(args, "clusterName").s, client.region)
    [] OTHER ->
         DescribeClusterCommand(Field(args, "clusterName").s, client.region)

AwaitAfterStart(name) ==
  CASE name = "list_eks_clusters" -> "awaitListClusters"
    [] name = "get_eks_cluster_status" -> "awaitStatus"
    [] name = "create_eks_cluster" -> "awaitCreate"
    [] name = "delete_eks_cluster" -> "awaitDelete"
    [] OTHER -> "awaitDetails"

\* The CallTool handler from the arrival of a request to its first await
\* (or to its end, when it throws before any).
CallTool(c) ==
  /\ NoResponsePending
  /\ call[c].pc = "idle"
  /\ \E name \in ToolNames :
       \E args \in ArgsFor(name) :
         LET cr == [IdleCall EXCEPT !.method = "tools/call",
                                       !.name = name, !.args = args]
             client == ClientFor(name, args, eksClient)
         IN  IF name \notin SwitchCases
               THEN /\ call' = [call EXCEPT ![c] = UnknownTool(cr)]
                    /\ eksClient' = eksClient
               ELSE IF ~ArgsAccepted(name, args)
                 THEN /\ call' = [call EXCEPT ![c] = InvalidArguments(cr)]
                      /\ eksClient' = eksClient
                 ELSE /\ eksClient' = client
                      /\ call' = [call EXCEPT ![c] =
                           Send([cr EXCEPT !.pc = AwaitAfterStart(name),
                                           !.reconfigured = (client # eksClient)],
                                FirstCommand(name, args, client))]
  /\ UNCHANGED stsClient

\* get_eks_cluster_status: the DescribeCluster reply arrives.
StatusReply(c) ==
  /\ NoResponsePending
  /\ call[c].pc = "awaitStatus"
  /\ \E reply \in DescribeReplies(Field(call[c].args, "clusterName").s) :
       LET op == getClusterStatusEnd(Field(call[c].args, "clusterName").s, reply)
       IN  call' = [call EXCEPT ![c] =
             Ended([@ EXCEPT !.reply = reply], op, handleGetClusterStatus(op))]
  /\ UNCHANGED <<eksClient, stsClient>>

\* create_eks_cluster: the CreateCluster reply arrives.
CreateReply(c) ==
  /\ NoResponsePending
  /\ call[c].pc = "awaitCreate"
  /\ \E reply \in CreateReplies(Field(call[c].args, "clusterName").s) :
       LET op == createClusterEnd(Field(call[c].args, "clusterName").s, reply)
       IN  call' = [call EXCEPT ![c] =
             Ended([@ EXCEPT !.reply = reply], op, handleCreateCluster(op))]
  /\ UNCHANGED <<eksClient, stsClient>>

\* delete_eks_cluster: the DeleteCluster reply arrives.
DeleteReply(c) ==
  /\ NoResponsePending
  /\ call[c].pc = "awaitDelete"
  /\ \E reply \in DeleteReplies :
       LET op == deleteClusterEnd(Field(call[c].args, "clusterName").s, reply)
       IN  call' = [call EXCEPT ![c] =
             Ended([@ EXCEPT !.reply = reply], op, handleDeleteCluster(op))]
  /\ UNCHANGED <<eksClient, stsClient>>

\* listClusters' catch around the enumeration.
listClustersThrow(e) ==
  Throw(Error(<<"Failed to list EKS clusters: ">> \o MessageOr(e, "Unknown error")))

\* Mutant of SendDescribes: each describe is sent a second time.
SendDescribesTwice(cr, names, region) ==
  [cr EXCEPT !.sent = @ \o [i \in DOMAIN names |->
                               DescribeClusterCommand(names[i], region)]
                        \o [i \in DOMAIN names |->
                               DescribeClusterCommand(names[i], region)]]

\* response.clusters.map(async ...) up to each callback's await: one
\* DescribeCluster per enumerated name, in order, on the current client.
SendDescribes(cr, names, region) ==
  [cr EXCEPT !.sent = @ \o [i \in DOMAIN names |->
                               DescribeClusterCommand(names[i], region)]]

\* list_eks_clusters: the ListClusters reply arrives.
ListClustersReply(c) ==
  /\ NoResponsePending
  /\ call[c].pc = "awaitListClusters"
  /\ \E reply \in ListReplies :
       LET cr == [call[c] EXCEPT !.reply = reply]
       IN  CASE reply.kind = "throw" ->
                  call' = [call EXCEPT ![c] =
                    Ended(cr, listClustersThrow(reply.error),
                          handleListClusters(listClustersThrow(reply.error)))]
             [] reply.kind = "empty" \/ (reply.kind = "ok" /\ reply.names = <<>>) ->
                  call' = [call EXCEPT ![c] =
                    Ended(cr, Return(<<>>), handleListClusters(Return(<<>>)))]
             [] OTHER ->
                  call' = [call EXCEPT ![c] =
                    SendDescribes(
                      [cr EXCEPT !.pc = "awaitDescribes",
                                 !.names = reply.names,
                                 !.pending = DOMAIN reply.names,
                                 !.replies = [i \in DOMAIN reply.names |-> NoReply],
                                 !.entries = [i \in DOMAIN reply.names |->
                                                ClusterInfo("", "", "")]],
                      reply.names, eksClient.region)]
  /\ UNCHANGED <<eksClient, stsClient>>

\* Mutant of PlaceEntry: the results are collected in the order in which
\* the callbacks complete.
PlaceEntryAsCompleted(entries, i, entry) ==
  LET free == {k \in DOMAIN entries : entries[k] = ClusterInfo("", "", "")}
      first == CHOOSE k \in free : \A j \in free : k <= j
  IN  [entries EXCEPT ![first] = entry]

\* Promise.all resolves with the callbacks' results in the order of the
\* mapped array, whenever each of them completes.
PlaceEntry(entries, i, entry) == [entries EXCEPT ![i] = entry]

\* Mutant of AllSettled: the first reply to arrive resolves the join.
FirstSettled(pending) == TRUE

\* await Promise.all(clusterDetailsPromises): resolved once no callback is
\* still waiting for its reply.
AllSettled(pending) == pending = {}

\* list_eks_clusters: one of the pending DescribeCluster replies arrives;
\* Promise.all resolves with the last of them.
DescribeSettles(c) ==
  /\ NoResponsePending
  /\ call[c].pc = "awaitDescribes"
  /\ \E i \in call[c].pending :
       \E reply \in DescribeReplies(call[c].names[i]) :
         LET cr == [call[c] EXCEPT
                      !.replies[i] = reply,
                      !.pending = @ \ {i},
                      !.entries = PlaceEntry(@, i,
                        listClustersEntry(call[c].names[i], reply, eksClient.region))]
         IN  IF AllSettled(cr.pending)
               THEN call' = [call EXCEPT ![c] =
                      Ended(cr, Return(cr.entries),
                            handleListClusters(Return(cr.entries)))]
               ELSE call' = [call EXCEPT ![c] = cr]
  /\ UNCHANGED <<eksClient, stsClient>>

GetCallerIdentityCommand(region) == Request("sts", "GetCallerIdentity", region, <<>>)

ListPodsRequest(session) ==
  Request("k8s", "listPodForAllNamespaces", NoRegion, session)

ListServicesRequest(session) ==
  Request("k8s", "listServiceForAllNamespaces", NoRegion, session)

\* list_cluster_deployments: getClusterStatus' DescribeCluster reply arrives.
DetailsReply(c) ==
  /\ NoResponsePending
  /\ call[c].pc = "awaitDetails"
  /\ \E reply \in DescribeReplies(Field(call[c].args, "clusterName").s) :
       LET cr == [call[c] EXCEPT !.reply = reply]
           status == getClusterStatusEnd(Field(call[c].args, "clusterName").s, reply)
           op == listClusterDeploymentsThrow(status.error)
       IN  IF status.kind = "throw"
             THEN call' = [call EXCEPT ![c] =
                    Ended(cr, op, handleListDeployments(op))]
             ELSE call' = [call EXCEPT ![c] =
                    Send([cr EXCEPT !.pc = "awaitIdentity",
                                    !.details = status.value],
                         GetCallerIdentityCommand(stsClient.region))]
  /\ UNCHANGED <<eksClient, stsClient>>

\* list_cluster_deployments: the GetCallerIdentity reply arrives.
IdentityReply(c) ==
  /\ NoResponsePending
  /\ call[c].pc = "awaitIdentity"
  /\ \E reply \in IdentityReplies :
       LET cr == [call[c] EXCEPT !.reply = reply]
           op == listClusterDeploymentsThrow(configureEKSAuthThrow(reply.error))
           session == configureEKSAuthSession(
                        cr.details, RegionOrDefault(Field(cr.args, "region")))
       IN  IF reply.kind = "throw"
             THEN call' = [call EXCEPT ![c] =
                    Ended(cr, op, handleListDeployments(op))]
             ELSE call' = [call EXCEPT ![c] =
                    Send([cr EXCEPT !.pc = "awaitPods", !.session = session],
                         ListPodsRequest(session))]
  /\ UNCHANGED <<eksClient, stsClient>>

\* list_cluster_deployments: the pod list arrives.
PodsReply(c) ==
  /\ NoResponsePending
  /\ call[c].pc = "awaitPods"
  /\ \E reply \in PodsReplies :
       LET cr == [call[c] EXCEPT !.reply = reply]
           op == listClusterDeploymentsThrow(reply.error)
       IN  IF reply.kind = "throw"
             THEN call' = [call EXCEPT ![c] =
                    Ended(cr, op, handleListDeployments(op))]
             ELSE call' = [call EXCEPT ![c] =
                    Send([cr EXCEPT !.pc = "awaitServices", !.pods = reply.items],
                         ListServicesRequest(cr.session))]
  /\ UNCHANGED <<eksClient, stsClient>>

\* list_cluster_deployments: the service list arrives.
ServicesReply(c) ==
  /\ NoResponsePending
  /\ call[c].pc = "awaitServices"
  /\ \E reply \in ServicesReplies :
       IF reply.kind = "throw"
         THEN LET cr == [call[c] EXCEPT !.reply = reply]
                  op == listClusterDeploymentsThrow(reply.error)
              IN  call' = [call EXCEPT ![c] =
                    Ended(cr, op, handleListDeployments(op))]
         ELSE \E now \in Nows :
                LET cr == [call[c] EXCEPT !.reply = reply, !.now = now]
                    op == listClusterDeploymentsEnd(
                            cr.pods, reply.items, Field(cr.args, "namespace"), now)
                IN  call' = [call EXCEPT ![c] =
                      Ended(cr, op, handleListDeployments(op))]
  /\ UNCHANGED <<eksClient, stsClient>>

\* The response is handed to the transport; nothing of the call remains.
Respond(c) ==
  /\ call[c].pc = "done"
  /\ call' = [call EXCEPT ![c] = IdleCall]
  /\ UNCHANGED <<eksClient, stsClient>>

Next ==
  \E c \in Calls :
       \/ ListTools(c)
       \/ CallTool(c)
       \/ StatusReply(c)
       \/ CreateReply(c)
       \/ DeleteReply(c)
       \/ ListClustersReply(c)
       \/ DescribeSettles(c)
       \/ DetailsReply(c)
       \/ IdentityReply(c)
       \/ PodsReply(c)
       \/ ServicesReply(c)
       \/ Respond(c)

Spec == Init /\ [][Next]_vars

(* ------------------------------------------------------------------ *)
(* Vocabulary of the properties                                        *)
(* ------------------------------------------------------------------ *)

\* Slot c holds a tool call (idle slots and tools/list requests do not).
IsToolCall(c) == call[c].method = "tools/call"

\* The tool call of slot c has ended and its response is about to be sent.
Finished(c) == IsToolCall(c) /\ call[c].pc = "done"

FiveNames ==
  {"list_eks_clusters", "get_eks_cluster_status", "create_eks_cluster",
   "delete_eks_cluster", "list_cluster_deployments"}

\* The structural predicate of each validated tool.
StructurallyValid(name, args) ==
  CASE name = "get_eks_cluster_status" -> isValidClusterStatusArgs(args)
    [] name = "create_eks_cluster" -> isValidCreateClusterArgs(args)
    [] name = "delete_eks_cluster" -> isValidDeleteClusterArgs(args)
    [] name = "list_cluster_deployments" -> isValidListDeploymentsArgs(args)
    [] OTHER -> TRUE

\* The call ended in the protocol error `code`, its message naming `name`.
EndedInError(c, code, name) ==
  /\ call[c].pc = "done"
  /\ call[c].outcome.kind = "error"
  /\ call[c].outcome.code = code
  /\ \E i \in DOMAIN call[c].outcome.message : call[c].outcome.message[i] = name

\* The call made no control-plane, identity-service or cluster-API call
\* and did not touch the shared client.
NoExternalEffect(c) ==
  /\ call[c].sent = <<>>
  /\ ~call[c].reconfigured

IsSuffix(s, t) ==
  /\ Len(s) <= Len(t)
  /\ SubSeq(t, Len(t) - Len(s) + 1, Len(t)) = s

(* ------------------------------------------------------------------ *)
(* C1                                                                  *)
(* ------------------------------------------------------------------ *)

\* C1: a tool call whose name is none of the five catalogue names ends (in
\* the step that takes the request) in a MethodNotFound protocol error
\* naming that tool; it sends no request to any external service and does
\* not reconfigure the shared client.
C1_UnknownToolMethodNotFound ==
  \A c \in Calls :
    (IsToolCall(c) /\ call[c].name \notin FiveNames) =>
      /\ EndedInError(c, "MethodNotFound", call[c].name)
      /\ NoExternalEffect(c)

\* An unknown tool was called while the client was in a region other than
\* the one it was constructed with.
C1_Witness ==
  \E c \in Calls :
    /\ Finished(c)
    /\ call[c].name = "list_pods"
    /\ call[c].outcome.code = "MethodNotFound"
    /\ eksClient.region # stsClient.region

(* ------------------------------------------------------------------ *)
(* C2                                                                  *)
(* ------------------------------------------------------------------ *)

\* C2: a call of get_eks_cluster_status, create_eks_cluster,
\* delete_eks_cluster or list_cluster_deployments whose arguments fail the
\* tool's structural predicate ends (in the step that takes the request)
\* in an InvalidParams protocol error naming the tool, with no request
\* sent to any external service and the shared client not reconfigured.
C2_InvalidArgumentsBeforeAnyCall ==
  \A c \in Calls :
    (/\ IsToolCall(c)
     /\ call[c].name \in FiveNames \ {"list_eks_clusters"}
     /\ ~StructurallyValid(call[c].name, call[c].args)) =>
      /\ EndedInError(c, "InvalidParams", call[c].name)
      /\ NoExternalEffect(c)

\* create_eks_cluster was called without subnetIds.
C2_Witness ==
  \E c \in Calls :
    /\ Finished(c)
    /\ call[c].name = "create_eks_cluster"
    /\ call[c].args = With(CreateBase("eu-west-1"), "subnetIds", Undef)
    /\ call[c].outcome.code = "InvalidParams"

(* ------------------------------------------------------------------ *)
(* C3                                                                  *)
(* ------------------------------------------------------------------ *)

\* C3: when the operation behind list_eks_clusters, get_eks_cluster_status
\* or list_cluster_deployments throws, the call ends in an InternalError
\* protocol error whose message ends with the operation's message; and the
\* InvalidParams and MethodNotFound errors raised during dispatch reach the
\* caller as protocol errors with those codes, not as InternalError and not
\* as a result envelope.
C3_ThrownFailuresAndProtocolErrors ==
  \A c \in Calls :
    Finished(c) =>
      /\ (/\ call[c].name \in {"list_eks_clusters", "get_eks_cluster_status",
                               "list_cluster_deployments"}
          /\ call[c].op.kind = "throw") =>
           /\ call[c].outcome.kind = "error"
           /\ call[c].outcome.code = "InternalError"
           /\ call[c].op.error.message # <<>>
           /\ IsSuffix(call[c].op.error.message, call[c].outcome.message)
      /\ (call[c].name \notin FiveNames) =>
           /\ call[c].outcome.kind = "error"
           /\ call[c].outcome.code = "MethodNotFound"
      /\ (call[c].name \in FiveNames
            /\ ~StructurallyValid(call[c].name, call[c].args)) =>
           /\ call[c].outcome.kind = "error"
           /\ call[c].outcome.code = "InvalidParams"

\* list_cluster_deployments failed at the identity check.
C3_Witness ==
  \E c \in Calls :
    /\ Finished(c)
    /\ call[c].name = "list_cluster_deployments"
    /\ Len(call[c].sent) = 2
    /\ call[c].reply.kind = "throw"
    /\ call[c].op.kind = "throw"
    /\ call[c].outcome.code = "InternalError"

(* ------------------------------------------------------------------ *)
(* C4                                                                  *)
(* ------------------------------------------------------------------ *)

\* C4: createCluster and deleteCluster never throw: when the control-plane
\* call fails (it rejects, or a create response carries no cluster) the
\* operation returns an OperationStatus with status FAILURE and a message,
\* otherwise one with status SUCCESS; so a create_eks_cluster or
\* delete_eks_cluster call with valid arguments never ends in a protocol
\* error.
C4_MutatingOperationsNeverThrow ==
  \A c \in Calls :
    (/\ Finished(c)
     /\ call[c].name \in {"create_eks_cluster", "delete_eks_cluster"}
     /\ StructurallyValid(call[c].name, call[c].args)) =>
      /\ call[c].op.kind = "return"
      /\ call[c].op.value.status =
           (IF call[c].reply.kind = "ok" THEN "SUCCESS" ELSE "FAILURE")
      /\ call[c].op.value.message # <<>>
      /\ call[c].outcome.kind = "result"
      /\ call[c].outcome.payload = call[c].op.value

\* A create whose response carried no cluster data.
C4_Witness ==
  \E c \in Calls :
    /\ Finished(c)
    /\ call[c].name = "create_eks_cluster"
    /\ call[c].reply.kind = "empty"
    /\ call[c].op.kind = "return"
    /\ call[c].op.value.status = "FAILURE"

(* ------------------------------------------------------------------ *)
(* C5                                                                  *)
(* ------------------------------------------------------------------ *)

\* C5: whenever create_eks_cluster or delete_eks_cluster reports its
\* downstream failure as an OperationStatus with status FAILURE, the
\* envelope returned to the caller is marked isError: true.
C5_ReportedFailureMarkedIsError ==
  \A c \in Calls :
    (/\ Finished(c)
     /\ call[c].name \in {"create_eks_cluster", "delete_eks_cluster"}
     /\ call[c].op.kind = "return"
     /\ call[c].op.value.status = "FAILURE") =>
      /\ call[c].outcome.kind = "result"
      /\ call[c].outcome.isError = "true"

(* ------------------------------------------------------------------ *)
(* C6                                                                  *)
(* ------------------------------------------------------------------ *)

\* C6: when the enumeration of list_eks_clusters returns N names, the
\* call returns an array of N entries whatever the describes do: an entry
\* whose describe threw (or answered without a cluster) has the enumerated
\* name and status UNKNOWN, every other entry has the status its describe
\* returned; the call as a whole fails exactly when the enumeration fails.
C6_ListClustersPartialFailure ==
  \A c \in Calls :
    (Finished(c) /\ call[c].name = "list_eks_clusters") =>
      /\ (call[c].op.kind = "throw") <=> (call[c].reply.kind = "throw")
      /\ (call[c].reply.kind = "ok") =>
           /\ call[c].op.kind = "return"
           /\ call[c].outcome.kind = "result"
           /\ call[c].outcome.payload = call[c].op.value
           /\ Len(call[c].op.value) = Len(call[c].reply.names)
           /\ \A i \in DOMAIN call[c].reply.names :
                IF call[c].replies[i].kind = "ok"
                  THEN call[c].op.value[i].status = call[c].replies[i].cluster.status
                  ELSE /\ call[c].replies[i].kind \in {"throw", "empty"}
                       /\ call[c].op.value[i].name = call[c].reply.names[i]
                       /\ call[c].op.value[i].status = "UNKNOWN"

\* Of two enumerated clusters the describe of the first threw and the
\* describe of the second succeeded.
C6_Witness ==
  \E c \in Calls :
    /\ Finished(c)
    /\ call[c].name = "list_eks_clusters"
    /\ Len(call[c].reply.names) = 2
    /\ call[c].replies[1].kind = "throw"
    /\ call[c].replies[2].kind = "ok"
    /\ call[c].op.value[1].status = "UNKNOWN"
    /\ call[c].op.value[2].status = "UPDATING"

(* ------------------------------------------------------------------ *)
(* C7                                                                  *)
(* ------------------------------------------------------------------ *)

RegionTools ==
  {"get_eks_cluster_status", "create_eks_cluster", "delete_eks_cluster",
   "list_cluster_deployments"}

\* This step takes the request of slot c, a call with valid arguments to
\* one of the operations that take a region.
StartsRegionCall(c) ==
  /\ call[c].pc = "idle"
  /\ call'[c].pc # "idle"
  /\ call'[c].method = "tools/call"
  /\ call'[c].name \in RegionTools
  /\ StructurallyValid(call'[c].name, call'[c].args)

\* The call specifies a region: read literally, whenever its region
\* argument is a string; read as the operations do, an empty string counts
\* as no region except for createCluster.
SpecifiesRegion(cr, literally) ==
  IF literally \/ cr.name = "create_eks_cluster"
    THEN TypeOf(Field(cr.args, "region")) = "string"
    ELSE Truthy(Field(cr.args, "region"))

\* The call taken in this step specifies a region other than the client's.
SwitchesRegion(c, literally) ==
  /\ StartsRegionCall(c)
  /\ SpecifiesRegion(call'[c], literally)
  /\ Field(call'[c].args, "region").s # eksClient.region

\* The requests slot c sends in this step.
NewRequests(c) ==
  SubSeq(call'[c].sent, Len(call[c].sent) + 1, Len(call'[c].sent))

\* One step of the persistent-region rule: a call that specifies another
\* region R leaves the client configured for R and its request goes to R;
\* a step in which no such call starts leaves the client's region alone;
\* every control-plane request sent in the step goes to the region the
\* client is configured for.
RegionRule(literally) ==
  \A c \in Calls :
    /\ SwitchesRegion(c, literally) =>
         /\ eksClient'.region = Field(call'[c].args, "region").s
         /\ call'[c].sent[1].region = Field(call'[c].args, "region").s
    /\ (\A d \in Calls : ~SwitchesRegion(d, literally)) =>
         eksClient'.region = eksClient.region
    /\ \A i \in DOMAIN NewRequests(c) :
         NewRequests(c)[i].service = "eks" =>
           NewRequests(c)[i].region = eksClient'.region

\* C7 (as amended): after getClusterStatus, deleteCluster or
\* list_cluster_deployments is called with a non-empty region R, or
\* createCluster with any region string R, different from the client's
\* current region, the client is reconfigured to R before that call's
\* request is sent, and every later control-plane request (those of calls
\* that specify no region, listClusters included) goes to R until such a
\* call names another region.
C7_RegionSwitchPersists == [][RegionRule(FALSE)]_vars

\* C7 (as stated): the same with every region string R different from the
\* client's current region, for all four operations.
C7_Original == [][RegionRule(TRUE)]_vars

\* A list_eks_clusters call, which takes no region, was sent to a region
\* other than the one the server was constructed with, while the client
\* is still configured for it.
C7_Witness ==
  \E c \in Calls :
    /\ call[c].name = "list_eks_clusters"
    /\ call[c].pc = "awaitListClusters"
    /\ call[c].sent[1].region # stsClient.region
    /\ call[c].sent[1].region = eksClient.region

(* ------------------------------------------------------------------ *)
(* C8                                                                  *)
(* ------------------------------------------------------------------ *)

\* The fields without which the tool's validator accepts no arguments.
RequiredByValidator(name) ==
  {fld \in Fields :
     \A a \in ArgsFor(name) :
       StructurallyValid(name, a) => ~StructurallyValid(name, With(a, fld, Undef))}

SeqRange(xs) == {xs[i] : i \in DOMAIN xs}

\* C8: a tools/list request is answered with exactly five descriptors,
\* their names pairwise distinct and together the five catalogue names,
\* each listing as required exactly the fields the tool's validator
\* requires; and a tool call is answered with MethodNotFound exactly when
\* its name is not one of these five.
C8_FixedCatalogue ==
  \A c \in Calls :
    /\ (call[c].pc = "done" /\ call[c].method = "tools/list") =>
         LET tools == call[c].outcome.payload
         IN  /\ call[c].outcome.kind = "tools"
             /\ Len(tools) = 5
             /\ \A i, j \in DOMAIN tools : tools[i].name = tools[j].name => i = j
             /\ {tools[i].name : i \in DOMAIN tools} = FiveNames
             /\ \A i \in DOMAIN tools :
                  /\ SeqRange(tools[i].required) = RequiredByValidator(tools[i].name)
                  /\ SeqRange(tools[i].required) \subseteq tools[i].properties
    /\ (IsToolCall(c) /\ call[c].pc # "idle") =>
         ((call[c].name \in FiveNames) <=>
            ~(call[c].outcome.kind = "error" /\ call[c].outcome.code = "MethodNotFound"))

\* The catalogue has been listed while a call to one of its tools is in
\* flight.
C8_Witness ==
  \E c, d \in Calls :
    /\ call[c].pc = "done"
    /\ call[c].method = "tools/list"
    /\ Len(call[c].outcome.payload) = 5
    /\ IsToolCall(d)
    /\ call[d].name = "delete_eks_cluster"
    /\ call[d].pc = "awaitDelete"

(* ------------------------------------------------------------------ *)
(* C9                                                                  *)
(* ------------------------------------------------------------------ *)

\* C9: a get_eks_cluster_status or delete_eks_cluster call whose
\* clusterName is the empty string makes no control-plane call and ends in
\* an InvalidParams protocol error.
C9_EmptyClusterNameRejected ==
  \A c \in Calls :
    (/\ IsToolCall(c)
     /\ call[c].pc # "idle"
     /\ call[c].name \in {"get_eks_cluster_status", "delete_eks_cluster"}
     /\ call[c].args.t = "object"
     /\ Field(call[c].args, "clusterName") = Str("")) =>
      /\ call[c].sent = <<>>
      /\ call[c].pc = "done"
      /\ EndedInError(c, "InvalidParams", call[c].name)

(* ------------------------------------------------------------------ *)
(* C10                                                                 *)
(* ------------------------------------------------------------------ *)

\* C10: a create_eks_cluster call whose subnetIds is the empty array, its
\* other fields valid, sends no create request and ends in an
\* InvalidParams protocol error.
C10_EmptySubnetIdsRejected ==
  \A c \in Calls :
    (/\ IsToolCall(c)
     /\ call[c].pc # "idle"
     /\ call[c].name = "create_eks_cluster"
     /\ call[c].args.t = "object"
     /\ Field(call[c].args, "subnetIds") = Arr(<<>>)
     /\ isValidCreateClusterArgs(
          With(call[c].args, "subnetIds", Arr(<<Str("subnet-1")>>)))) =>
      /\ call[c].sent = <<>>
      /\ call[c].pc = "done"
      /\ EndedInError(c, "InvalidParams", call[c].name)

(* ------------------------------------------------------------------ *)
(* C11                                                                 *)
(* ------------------------------------------------------------------ *)

\* The create request a create_eks_cluster call has sent.
CreateRequestOf(c) == call[c].sent[1]

\* C11: the CreateCluster request of a valid create_eks_cluster call
\* carries the public-access CIDR list ["0.0.0.0/0"] when the arguments
\* supply no publicAccessCidrs, and the supplied list, same elements in
\* the same order, when they supply one.
C11_PublicAccessCidrs ==
  \A c \in Calls :
    (/\ IsToolCall(c)
     /\ call[c].name = "create_eks_cluster"
     /\ call[c].pc # "idle"
     /\ isValidCreateClusterArgs(call[c].args)) =>
      /\ Len(call[c].sent) = 1
      /\ CreateRequestOf(c).command = "CreateCluster"
      /\ CreateRequestOf(c).input.publicAccessCidrs =
           (IF Field(call[c].args, "publicAccessCidrs").t = "undefined"
              THEN Arr(<<Str("0.0.0.0/0")>>)
              ELSE Field(call[c].args, "publicAccessCidrs"))

\* A create request went out with a supplied list of two CIDRs while
\* another went out with none supplied.
C11_Witness ==
  \E c, d \in Calls :
    /\ call[c].pc = "awaitCreate"
    /\ Field(call[c].args, "publicAccessCidrs")
         = Arr(<<Str("10.0.0.0/8"), Str("192.168.0.0/16")>>)
    /\ CreateRequestOf(c).input.publicAccessCidrs.a
         = <<Str("10.0.0.0/8"), Str("192.168.0.0/16")>>
    /\ call[d].pc = "awaitCreate"
    /\ Field(call[d].args, "publicAccessCidrs") = Undef
    /\ CreateRequestOf(d).input.publicAccessCidrs.a = <<Str("0.0.0.0/0")>>

(* ------------------------------------------------------------------ *)
(* C12                                                                 *)
(* ------------------------------------------------------------------ *)

\* C12: the OperationStatus a valid create_eks_cluster or
\* delete_eks_cluster call returns has status SUCCESS or FAILURE and a
\* message, and carries clusterDetails (those of the created cluster)
\* exactly when the operation is create and the status is SUCCESS.
C12_OperationStatusConsistent ==
  \A c \in Calls :
    (/\ Finished(c)
     /\ call[c].name \in {"create_eks_cluster", "delete_eks_cluster"}
     /\ StructurallyValid(call[c].name, call[c].args)) =>
      LET st == call[c].op.value
      IN  /\ call[c].op.kind = "return"
          /\ st.status \in {"SUCCESS", "FAILURE"}
          /\ st.message # <<>>
          /\ st.hasDetails <=>
               (call[c].name = "create_eks_cluster" /\ st.status = "SUCCESS")
          /\ st.hasDetails =>
               /\ st.clusterDetails.name = Field(call[c].args, "clusterName").s
               /\ st.clusterDetails.status = call[c].reply.cluster.status
          /\ ~st.hasDetails => st.clusterDetails = NoDetails

\* A create that succeeded and returned the new cluster's details.
C12_Witness ==
  \E c \in Calls :
    /\ Finished(c)
    /\ call[c].name = "create_eks_cluster"
    /\ call[c].op.kind = "return"
    /\ call[c].op.value.status = "SUCCESS"
    /\ call[c].op.value.hasDetails
    /\ call[c].op.value.clusterDetails.status = "CREATING"

(* ------------------------------------------------------------------ *)
(* C13                                                                 *)
(* ------------------------------------------------------------------ *)

\* The requests of listClusterDeployments, in the order of its steps.
DeploymentSteps ==
  <<"DescribeCluster", "GetCallerIdentity", "listPodForAllNamespaces",
    "listServiceForAllNamespaces">>

\* The step a list_cluster_deployments call is waiting for (0: none).
AwaitedStep(pc) ==
  CASE pc = "awaitDetails" -> 1
    [] pc = "awaitIdentity" -> 2
    [] pc = "awaitPods" -> 3
    [] pc = "awaitServices" -> 4
    [] OTHER -> 0

\* One step of a list_cluster_deployments call: it starts with the
\* describe; an answered step is followed by exactly the next request, the
\* last by the result; the session and its token are built on the answer
\* of the identity check and at no other moment; a failed step ends the
\* call at once, nothing more is sent, and the call throws the wrapped
\* failure and gives the caller an error that carries no pods or services
\* (so does a result that cannot be built from the two lists).
DeploymentsStep(c) ==
  LET before == call[c]
      after == call'[c]
      k == AwaitedStep(before.pc)
  IN  /\ (before.pc = "idle" /\ after.pc # "idle"
            /\ after.name = "list_cluster_deployments"
            /\ isValidListDeploymentsArgs(after.args)) =>
           /\ after.pc = "awaitDetails"
           /\ Len(after.sent) = 1
           /\ after.sent[1].command = DeploymentSteps[1]
           /\ after.session = NoSession
      /\ (k > 0 /\ after.pc # before.pc) =>
           /\ Len(before.sent) = k
           /\ \A i \in 1 .. k : before.sent[i].command = DeploymentSteps[i]
           /\ (after.session # before.session) =>
                (k = 2 /\ after.reply.kind = "ok")
           /\ (after.reply.kind # "ok") => after.op.kind = "throw"
           /\ IF after.op.kind = "throw"
                THEN /\ after.pc = "done"
                     /\ after.sent = before.sent
                     /\ after.session = before.session
                     /\ after.op.error.message[1]
                          = "Failed to list cluster deployments: "
                     /\ after.outcome.kind = "error"
                     /\ after.outcome.code = "InternalError"
                     /\ after.outcome.payload = <<>>
                     /\ IsSuffix(after.op.error.message, after.outcome.message)
                ELSE IF k < 4
                  THEN /\ after.pc # "done"
                       /\ AwaitedStep(after.pc) = k + 1
                       /\ after.sent
                            = Append(before.sent, after.sent[k + 1])
                       /\ after.sent[k + 1].command = DeploymentSteps[k + 1]
                       /\ after.op.kind = "none"
                  ELSE /\ after.pc = "done"
                       /\ after.sent = before.sent
                       /\ after.op.kind = "return"
                       /\ after.outcome.kind = "result"

\* C13: listClusterDeployments resolves the cluster details, checks the
\* caller's identity, builds token and session, fetches the pods and
\* fetches the services, in this order; the identity check precedes the
\* token and every cluster-API request; when a step fails no later step
\* runs, the call fails with a wrapped failure and returns no partial
\* pods or services.
C13_DeploymentsFailFast == [][\A c \in Calls : DeploymentsStep(c)]_vars

\* The pod list failed after the session was built: the services were
\* never asked for.
C13_Witness ==
  \E c \in Calls :
    /\ Finished(c)
    /\ call[c].name = "list_cluster_deployments"
    /\ Len(call[c].sent) = 3
    /\ call[c].sent[3].command = "listPodForAllNamespaces"
    /\ call[c].session # NoSession
    /\ call[c].reply.kind = "throw"
    /\ call[c].op.kind = "throw"

(* ------------------------------------------------------------------ *)
(* C14                                                                 *)
(* ------------------------------------------------------------------ *)

\* Slot c holds a list_cluster_deployments call whose session is built.
HasSession(c) ==
  /\ IsToolCall(c)
  /\ call[c].name = "list_cluster_deployments"
  /\ call[c].session # NoSession

\* C14: the bearer token of a list_cluster_deployments call starts with
\* the scheme marker and encodes the name of the inspected cluster and
\* the region its DescribeCluster request of this call was sent to, also
\* when the call specified no region.
C14_TokenScopedToClusterAndRegion ==
  \A c \in Calls :
    HasSession(c) =>
      /\ call[c].session.token.scheme = "k8s-aws-v1."
      /\ call[c].session.token.cluster = Field(call[c].args, "clusterName").s
      /\ call[c].sent[1].command = "DescribeCluster"
      /\ call[c].session.token.region = call[c].sent[1].region

(* ------------------------------------------------------------------ *)
(* C15                                                                 *)
(* ------------------------------------------------------------------ *)

\* The cluster the control plane describes under the name n.
Described(n) == Cluster(n, StatusOf(n))

\* C15: the session built for a cluster the control plane describes with
\* certificate authority data carries that cluster's endpoint and that
\* certificate authority data.
C15_SessionCarriesCertificateAuthority ==
  \A c \in Calls :
    (/\ HasSession(c)
     /\ Described(Field(call[c].args, "clusterName").s).certificateAuthority # "") =>
      /\ call[c].session.server
           = Described(Field(call[c].args, "clusterName").s).endpoint
      /\ call[c].session.certificateAuthorityData
           = Described(Field(call[c].args, "clusterName").s).certificateAuthority

(* ------------------------------------------------------------------ *)
(* C16                                                                 *)
(* ------------------------------------------------------------------ *)

\* Slot c holds a list_cluster_deployments call that returned a result.
ReturnedDeployments(c) ==
  /\ Finished(c)
  /\ call[c].name = "list_cluster_deployments"
  /\ call[c].op.kind = "return"

\* The objects of `items` whose metadata carries exactly the namespace n.
ExactlyIn(items, n) ==
  SelectSeq(items, LAMBDA x : x.namespace # "" /\ x.namespace = n)

\* The name and namespace under which each object is reported.
ReportedAs(items) == [i \in DOMAIN items |-> projectObject(items[i])]

NameAndNamespace(infos) ==
  [i \in DOMAIN infos |-> [name |-> infos[i].name,
                           namespace |-> infos[i].namespace]]

\* The namespace argument asks for filtering: read literally, whenever it
\* is a string other than "all"; read as the operation does, whenever it
\* is a non-empty string other than "all".
AsksForNamespace(ns, literally) ==
  /\ ns.t = "string"
  /\ ns.s # "all"
  /\ literally \/ ns.s # ""

\* A returned result holds all pods and services received, in the order
\* received, when no filtering is asked for, and otherwise those whose
\* namespace is exactly the argument.
NamespaceRule(literally) ==
  \A c \in Calls :
    ReturnedDeployments(c) =>
      LET ns == Field(call[c].args, "namespace")
          Expected(items) == IF AsksForNamespace(ns, literally)
                               THEN ExactlyIn(items, ns.s)
                               ELSE items
      IN  /\ NameAndNamespace(call[c].op.value.pods)
               = ReportedAs(Expected(call[c].pods))
          /\ NameAndNamespace(call[c].op.value.services)
               = ReportedAs(Expected(call[c].reply.items))
          /\ call[c].outcome.payload = call[c].op.value

\* C16 (as amended): list_cluster_deployments with namespace "all"
\* returns what it returns with no namespace, or with the empty string:
\* all pods and services of every namespace, unfiltered; with any other
\* namespace it keeps exactly the objects whose namespace is the argument.
C16_NamespaceSentinel == NamespaceRule(FALSE)

\* C16 (as stated): no filtering when the namespace is absent or "all",
\* otherwise (the empty string included) only objects whose namespace is
\* exactly the argument are kept.
C16_Original == NamespaceRule(TRUE)

\* A call with namespace "all" returned all four pods and all five
\* services it received.
C16_Witness ==
  \E c \in Calls :
    /\ ReturnedDeployments(c)
    /\ Field(call[c].args, "namespace") = Str("all")
    /\ Len(call[c].pods) = 4
    /\ Len(call[c].op.value.pods) = 4
    /\ Len(call[c].reply.items) = 5
    /\ Len(call[c].op.value.services) = 5

(* ------------------------------------------------------------------ *)
(* C17                                                                 *)
(* ------------------------------------------------------------------ *)

\* Filtering `items` by the namespace argument ns changes nothing.
AlreadyFiltered(items, ns) ==
  filterByNamespace(items, targetNamespace(ns)) = items

\* C17: namespace filtering is idempotent: for the pods and services a
\* call received and its namespace argument n, filtering by n what
\* filtering by n kept keeps all of it, and so does filtering by n the
\* pods and services of the returned result.
C17_NamespaceFilterIdempotent ==
  \A c \in Calls :
    ReturnedDeployments(c) =>
      LET ns == Field(call[c].args, "namespace")
          Once(items) == filterByNamespace(items, targetNamespace(ns))
      IN  /\ AlreadyFiltered(Once(call[c].pods), ns)
          /\ AlreadyFiltered(Once(call[c].reply.items), ns)
          /\ Len(call[c].op.value.pods) = Len(Once(call[c].pods))
          /\ AlreadyFiltered(call[c].op.value.pods, ns)
          /\ AlreadyFiltered(call[c].op.value.services, ns)

\* A call filtered by kube-system kept two of four pods and two of five
\* services.
C17_Witness ==
  \E c \in Calls :
    /\ ReturnedDeployments(c)
    /\ Field(call[c].args, "namespace") = Str("kube-system")
    /\ Len(call[c].pods) = 4
    /\ Len(call[c].op.value.pods) = 2
    /\ Len(call[c].reply.items) = 5
    /\ Len(call[c].op.value.services) = 2

(* ------------------------------------------------------------------ *)
(* C18                                                                 *)
(* ------------------------------------------------------------------ *)

\* The pods a call kept, in the order of the returned result.
KeptPods(c) ==
  filterByNamespace(call[c].pods,
                    targetNamespace(Field(call[c].args, "namespace")))

\* "r/t" for t container status entries of which r are ready.
ReadyOfTotal(flags) ==
  ToString(Cardinality({j \in DOMAIN flags : flags[j]})) \o "/"
    \o ToString(Len(flags))

\* C18: every pod of a returned result has ready rendered as "r/t", t
\* the number of its container status entries and r the number of those
\* that are ready; a pod that reports no container statuses has "0/0".
C18_PodReadiness ==
  \A c \in Calls :
    ReturnedDeployments(c) =>
      /\ Len(call[c].op.value.pods) = Len(KeptPods(c))
      /\ \A i \in DOMAIN KeptPods(c) :
           LET pod == KeptPods(c)[i]
               info == call[c].op.value.pods[i]
           IN  /\ pod.containerStatuses.defined =>
                    info.ready = ReadyOfTotal(pod.containerStatuses.ready)
               /\ ~pod.containerStatuses.defined => info.ready = "0/0"
               /\ pod.containerStatuses.ready = <<TRUE, FALSE, TRUE>> =>
                    info.ready = "2/3"

\* A result with a pod of three containers, two of them ready, and a pod
\* that reports no container statuses.
C18_Witness ==
  \E c \in Calls :
    /\ ReturnedDeployments(c)
    /\ Len(call[c].op.value.pods) = 4
    /\ call[c].pods[1].containerStatuses.ready = <<TRUE, FALSE, TRUE>>
    /\ call[c].op.value.pods[1].ready = "2/3"
    /\ ~call[c].pods[2].containerStatuses.defined
    /\ call[c].op.value.pods[2].ready = "0/0"

(* ------------------------------------------------------------------ *)
(* C19                                                                 *)
(* ------------------------------------------------------------------ *)

\* The services a call kept, in the order of the returned result.
KeptServices(c) ==
  filterByNamespace(call[c].reply.items,
                    targetNamespace(Field(call[c].args, "namespace")))

\* The age of an object created e >= 0 milliseconds ago.
AgeOfElapsed(e) ==
  IF e \div Day >= 1 THEN ToString(e \div Day) \o "d"
  ELSE IF e \div Hour >= 1 THEN ToString(e \div Hour) \o "h"
  ELSE ToString(e \div Minute) \o "m"

\* The entry `info`, built at the moment `now`, renders the age of the
\* object `x` as the rule says.
AgeRendered(x, info, now) ==
  LET e == now - x.creationTimestamp
  IN  /\ x.creationTimestamp = NoTimestamp => info.age = "unknown"
      /\ (x.creationTimestamp # NoTimestamp /\ e >= 0) =>
           /\ info.age = AgeOfElapsed(e)
           /\ e = 2 * Day + 3 * Hour => info.age = "2d"
           /\ e = 3 * Hour => info.age = "3h"
           /\ e = 30 * Minute => info.age = "30m"
           /\ e < Minute => info.age = "0m"

\* C19: every pod and service of a returned result that was created e >= 0
\* milliseconds before the result was built has the age floor(e / day)
\* "d" when that is at least 1, else floor(e / hour) "h" when that is at
\* least 1, else floor(e / minute) "m"; one without a creation timestamp
\* has the age "unknown".
C19_AgeRendering ==
  \A c \in Calls :
    ReturnedDeployments(c) =>
      /\ call[c].now \in Nows
      /\ \A i \in DOMAIN KeptPods(c) :
           AgeRendered(KeptPods(c)[i], call[c].op.value.pods[i], call[c].now)
      /\ \A i \in DOMAIN KeptServices(c) :
           AgeRendered(KeptServices(c)[i], call[c].op.value.services[i],
                       call[c].now)

\* A result whose pods are 2 days 3 hours, 3 hours and 30 minutes old and
\* without a timestamp, and whose first service is exactly one day old.
C19_Witness ==
  \E c \in Calls :
    /\ ReturnedDeployments(c)
    /\ call[c].now = FirstNow
    /\ Len(call[c].op.value.pods) = 4
    /\ call[c].op.value.pods[1].age = "2d"
    /\ call[c].op.value.pods[2].age = "3h"
    /\ call[c].op.value.pods[3].age = "30m"
    /\ call[c].op.value.pods[4].age = "unknown"
    /\ Len(call[c].op.value.services) = 5
    /\ call[c].op.value.services[1].age = "1d"

(* ------------------------------------------------------------------ *)
(* C20                                                                 *)
(* ------------------------------------------------------------------ *)

\* The external IP of a service: the first ingress's ip, else its
\* hostname, else "<pending>" when a load balancer is provisioned without
\* an ingress (the list empty or absent); with no load balancer the
\* external IPs joined with commas, else "<none>".
ExternalIPRule(service) ==
  IF service.ingress.defined /\ service.ingress.items # <<>>
    THEN LET first == service.ingress.items[1]
         IN  IF first.ip # "" THEN first.ip
             ELSE IF first.hostname # "" THEN first.hostname
             ELSE "<pending>"
    ELSE IF service.type = "LoadBalancer" THEN "<pending>"
    ELSE IF service.externalIPs # <<>> THEN JoinWithCommas(service.externalIPs)
    ELSE "<none>"

\* C20: a list_cluster_deployments call that received its pods and
\* services returns a result, whatever the services are, and every
\* service of the result has the external IP of the rule.
C20_ExternalIPProjection ==
  \A c \in Calls :
    (/\ Finished(c)
     /\ call[c].name = "list_cluster_deployments"
     /\ Len(call[c].sent) = 4
     /\ call[c].reply.kind = "ok") =>
      /\ call[c].op.kind = "return"
      /\ Len(call[c].op.value.services) = Len(KeptServices(c))
      /\ \A i \in DOMAIN KeptServices(c) :
           call[c].op.value.services[i].externalIP
             = ExternalIPRule(KeptServices(c)[i])

(* ------------------------------------------------------------------ *)
(* C21                                                                 *)
(* ------------------------------------------------------------------ *)

\* The commands a call has sent, in order.
CommandsOf(c) == [i \in DOMAIN call[c].sent |-> call[c].sent[i].command]

\* s is an initial part of t.
IsPrefix(s, t) == Len(s) <= Len(t) /\ SubSeq(t, 1, Len(s)) = s

\* The names a list_eks_clusters call has enumerated so far.
EnumeratedBy(c) ==
  IF call[c].pc = "awaitListClusters" THEN <<>> ELSE call[c].names

\* C21: within one tool call every external call is attempted once,
\* whether it succeeds or fails: list_eks_clusters sends one ListClusters
\* and then one DescribeCluster per enumerated name; get_eks_cluster_status
\* one DescribeCluster; create_eks_cluster one CreateCluster and nothing
\* else; delete_eks_cluster one DeleteCluster; list_cluster_deployments
\* one DescribeCluster, one GetCallerIdentity, at most one pod list and at
\* most one service list, in this order.
C21_EveryExternalCallOnce ==
  \A c \in Calls :
    (/\ IsToolCall(c)
     /\ call[c].pc # "idle"
     /\ call[c].name \in FiveNames
     /\ StructurallyValid(call[c].name, call[c].args)) =>
      CASE call[c].name = "list_eks_clusters" ->
             /\ Len(call[c].sent) = 1 + Len(EnumeratedBy(c))
             /\ call[c].sent[1].command = "ListClusters"
             /\ \A i \in DOMAIN EnumeratedBy(c) :
                  /\ call[c].sent[1 + i].command = "DescribeCluster"
                  /\ call[c].sent[1 + i].input.name = EnumeratedBy(c)[i]
        [] call[c].name = "get_eks_cluster_status" ->
             /\ CommandsOf(c) = <<"DescribeCluster">>
             /\ call[c].sent[1].input.name = Field(call[c].args, "clusterName").s
        [] call[c].name = "create_eks_cluster" ->
             CommandsOf(c) = <<"CreateCluster">>
        [] call[c].name = "delete_eks_cluster" ->
             /\ CommandsOf(c) = <<"DeleteCluster">>
             /\ call[c].sent[1].input.name = Field(call[c].args, "clusterName").s
        [] OTHER ->
             /\ CommandsOf(c) # <<>>
             /\ IsPrefix(CommandsOf(c), DeploymentSteps)

\* A list_eks_clusters call of two clusters ended after a describe had
\* failed: it had sent the enumeration and two describes.
C21_Witness ==
  \E c \in Calls :
    /\ Finished(c)
    /\ call[c].name = "list_eks_clusters"
    /\ Len(call[c].names) = 2
    /\ call[c].replies[1].kind = "throw"
    /\ CommandsOf(c) = <<"ListClusters", "DescribeCluster", "DescribeCluster">>

(* ------------------------------------------------------------------ *)
(* C22                                                                 *)
(* ------------------------------------------------------------------ *)

\* The reply (result or failure) of the external request call c waits for
\* arrives and the handler runs to its next await or to its end.
ExternalReply(c) ==
  \/ StatusReply(c)
  \/ CreateReply(c)
  \/ DeleteReply(c)
  \/ ListClustersReply(c)
  \/ DescribeSettles(c)
  \/ DetailsReply(c)
  \/ IdentityReply(c)
  \/ PodsReply(c)
  \/ ServicesReply(c)

\* The calls whose external requests are assumed to return or fail; the
\* requests of the other calls may stay pending for ever.
Settling == {1}

\* The requests the fair specification draws from: for every tool a
\* request the switch rejects and requests it runs, with and without a
\* region.
SampleArgs ==
  {ArgsOf("undefined", NoFields), ObjArgs(NoFields),
   NameRegion(Str("c1"), Undef), NameRegion(Str("c1"), Str("eu-west-1")),
   CreateBase("eu-west-1")}

\* Every call in flight carries a sampled request, and the clock of a
\* rendered age is the first of Nows.
Sampled ==
  \A c \in Calls : call[c].args \in SampleArgs /\ call[c].now # FirstNow - 1

\* The steps of Next on sampled requests.
SampledNext ==
  \E c \in Calls :
       \/ ListTools(c) /\ Sampled'
       \/ CallTool(c) /\ Sampled'
       \/ StatusReply(c) /\ Sampled'
       \/ CreateReply(c) /\ Sampled'
       \/ DeleteReply(c) /\ Sampled'
       \/ ListClustersReply(c) /\ Sampled'
       \/ DescribeSettles(c) /\ Sampled'
       \/ DetailsReply(c) /\ Sampled'
       \/ IdentityReply(c) /\ Sampled'
       \/ PodsReply(c) /\ Sampled'
       \/ ServicesReply(c) /\ Sampled'
       \/ Respond(c) /\ Sampled'

\* The event loop hands every finished handler's response to the transport
\* (a promise reaction, independent of the outside world), and runs the
\* continuation of a settling call whenever its reply has arrived: a reply
\* is a queued task, which the loop reaches however often other calls'
\* responses are handed over in between.
FairSpec ==
  /\ Init
  /\ [][SampledNext]_vars
  /\ \A c \in Calls : WF_vars(Respond(c))
  /\ \A c \in Settling : SF_vars(ExternalReply(c))

\* A call leaves only by its response being handed over, once.
RespondedOnce ==
  \A c \in Calls :
    (call[c].pc # "idle" /\ call'[c].pc = "idle") =>
      /\ call[c].pc = "done"
      /\ call[c].outcome.kind \in {"tools", "result", "error"}

\* A finished list_eks_clusters call that enumerated names has a reply for
\* every one of its describes.
JoinedBeforeResponse ==
  \A c \in Calls :
    (Finished(c) /\ call[c].name = "list_eks_clusters"
       /\ call[c].reply.kind = "ok") =>
      /\ call[c].pending = {}
      /\ \A i \in DOMAIN call[c].names : call[c].replies[i] # NoReply

\* C22: if the external requests of a call return or fail, the call ends
\* in one response (a result envelope or a protocol error), whatever the
\* other in-flight calls do and even when their external requests never
\* return; list_eks_clusters responds only after all of its describes
\* have settled.
C22_CallsCompleteIndependently ==
  /\ \A c \in Settling : (call[c].pc # "idle") ~> (call[c].pc = "idle")
  /\ [][RespondedOnce]_vars
  /\ [] JoinedBeforeResponse

\* Call 1 has finished a list_eks_clusters of two clusters while the
\* other call still waits for the reply to its first request.
C22_Witness ==
  /\ Finished(1)
  /\ call[1].name = "list_eks_clusters"
  /\ Len(call[1].names) = 2
  /\ call[2].pc \in {"awaitStatus", "awaitDetails", "awaitListClusters"}
  /\ call[2].reply = NoReply

(* ------------------------------------------------------------------ *)
(* C23                                                                 *)
(* ------------------------------------------------------------------ *)

\* A call of getClusterStatus, createCluster or deleteCluster that has
\* sent its request and specifies a region.
RegionCallInFlight(c, literally) ==
  /\ IsToolCall(c)
  /\ call[c].name \in {"get_eks_cluster_status", "create_eks_cluster",
                       "delete_eks_cluster"}
  /\ StructurallyValid(call[c].name, call[c].args)
  /\ call[c].pc # "idle"
  /\ SpecifiesRegion(call[c], literally)

\* The one control-plane request of such a call went to the call's region,
\* whatever the other calls have done to the client before or since.
OwnRegionRule(literally) ==
  \A c \in Calls :
    RegionCallInFlight(c, literally) =>
      /\ Len(call[c].sent) = 1
      /\ call[c].sent[1].service = "eks"
      /\ call[c].sent[1].region = Field(call[c].args, "region").s

\* C23 (as amended): under any interleaving of tool calls, the request of
\* getClusterStatus or deleteCluster called with a non-empty region, and
\* of createCluster called with any region string, is sent to exactly that
\* region.
C23_RequestSentToOwnRegion == OwnRegionRule(FALSE)

\* C23 (as stated): the same for every call that specifies a region
\* string.
C23_Original == OwnRegionRule(TRUE)

\* Two calls with different regions are in flight: each request went to
\* its own region, and the client is configured for the later one.
C23_Witness ==
  \E c, d \in Calls :
    /\ RegionCallInFlight(c, FALSE) /\ RegionCallInFlight(d, FALSE)
    /\ call[c].pc # "done" /\ call[d].pc # "done"
    /\ call[c].sent[1].region = "eu-west-1"
    /\ call[d].sent[1].region = "us-east-1"
    /\ eksClient.region = "us-east-1"

(* ------------------------------------------------------------------ *)
(* C24                                                                 *)
(* ------------------------------------------------------------------ *)

\* C24: within one list_eks_clusters call every describe is sent to the
\* region in which the names were enumerated (that of its ListClusters
\* request), and every entry of the returned array carries that region,
\* even when other calls switch the client's region meanwhile.
C24_ListClustersOneRegion ==
  \A c \in Calls :
    (IsToolCall(c) /\ call[c].name = "list_eks_clusters"
       /\ call[c].pc # "idle") =>
      /\ \A i \in DOMAIN call[c].sent :
           call[c].sent[i].region = call[c].sent[1].region
      /\ (Finished(c) /\ call[c].op.kind = "return") =>
           \A i \in DOMAIN call[c].op.value :
             call[c].op.value[i].region = call[c].sent[1].region

(* ------------------------------------------------------------------ *)
(* C25                                                                 *)
(* ------------------------------------------------------------------ *)

\* The entries of the unfiltered result for `items` whose namespace field
\* is n.
ReportedIn(items, n) ==
  SelectSeq(ReportedAs(items), LAMBDA x : x.namespace = n)

\* C25: for every non-empty namespace n other than "all", the pods and
\* services list_cluster_deployments returns for n are the entries of the
\* unfiltered result whose namespace field is n, objects without a
\* namespace (reported under "default") included.
C25_FilterAgreesWithReportedNamespace ==
  \A c \in Calls :
    (ReturnedDeployments(c)
       /\ AsksForNamespace(Field(call[c].args, "namespace"), FALSE)) =>
      LET n == Field(call[c].args, "namespace").s
      IN  /\ NameAndNamespace(call[c].op.value.pods)
               = ReportedIn(call[c].pods, n)
          /\ NameAndNamespace(call[c].op.value.services)
               = ReportedIn(call[c].reply.items, n)

(* ------------------------------------------------------------------ *)
(* C26                                                                 *)
(* ------------------------------------------------------------------ *)

SwitchingTools ==
  {"get_eks_cluster_status", "create_eks_cluster", "delete_eks_cluster"}

\* This step takes the request of slot c, a tool call that reaches its
\* operation.
StartsOperation(c) ==
  /\ call[c].pc = "idle"
  /\ call'[c].method = "tools/call"
  /\ call'[c].sent # <<>>

\* In this step the control-plane call of slot c, one of the three
\* switching operations, fails and the call ends.
ControlPlaneCallFails(c) ==
  /\ call[c].name \in SwitchingTools
  /\ call[c].pc \in {"awaitStatus", "awaitCreate", "awaitDelete"}
  /\ call'[c].pc = "done"
  /\ call'[c].reply.kind = "throw"

\* One step of the no-rollback rule: a switching operation called with a
\* region R other than the client's leaves the client at R; the step in
\* which its control-plane call fails leaves the client as it is; a call
\* that does not switch (no region, the current region, listClusters)
\* leaves the client as it is, and one that specifies no region is sent to
\* the region the client has.
NoRollbackRule(literally) ==
  \A c \in Calls :
    /\ (SwitchesRegion(c, literally) /\ call'[c].name \in SwitchingTools) =>
         eksClient'.region = Field(call'[c].args, "region").s
    /\ ControlPlaneCallFails(c) => eksClient' = eksClient
    /\ (StartsOperation(c) /\ ~SwitchesRegion(c, literally)) =>
         eksClient' = eksClient
    /\ (StartsOperation(c) /\ ~SpecifiesRegion(call'[c], literally)) =>
         call'[c].sent[1].region = eksClient.region

\* C26 (as amended): a region switch is not rolled back on failure. When
\* getClusterStatus or deleteCluster is called with a non-empty region, or
\* createCluster with any region string, different from the client's, and
\* the control-plane call fails, the client stays configured for the new
\* region and later calls without a region go there; calls that specify
\* no region, an empty region (createCluster excepted) or the current
\* region, and listClusters, leave the client's region unchanged.
C26_SwitchNotRolledBack == [][NoRollbackRule(FALSE)]_vars

\* C26 (as stated): the same for every region string different from the
\* client's current one.
C26_Original == [][NoRollbackRule(TRUE)]_vars

\* A call that switched the client away from the constructed region has
\* failed, the client is still configured for the call's region, and a
\* list_eks_clusters call started meanwhile was sent there.
C26_Witness ==
  \E c, d \in Calls :
    /\ Finished(c)
    /\ call[c].name \in SwitchingTools
    /\ call[c].reconfigured
    /\ call[c].reply.kind = "throw"
    /\ eksClient.region = Field(call[c].args, "region").s
    /\ eksClient.region # stsClient.region
    /\ call[d].name = "list_eks_clusters"
    /\ call[d].pc = "awaitListClusters"
    /\ call[d].sent[1].region = eksClient.region

(* ------------------------------------------------------------------ *)
(* C27                                                                 *)
(* ------------------------------------------------------------------ *)

\* C27: list_eks_clusters keeps the enumeration order: the i-th entry is
\* that of the i-th enumerated name, whichever of the concurrent describes
\* completes or fails first, while they settle and in the returned array.
C27_EnumerationOrderPreserved ==
  \A c \in Calls :
    (IsToolCall(c) /\ call[c].name = "list_eks_clusters"
       /\ call[c].pc \in {"awaitDescribes", "done"}
       /\ call[c].reply.kind = "ok") =>
      /\ Len(call[c].entries) = Len(call[c].names)
      /\ \A i \in DOMAIN call[c].names :
           i \notin call[c].pending =>
             /\ call[c].entries[i].name = call[c].names[i]
             /\ call[c].entries[i].status =
                  IF call[c].replies[i].kind = "ok"
                    THEN call[c].replies[i].cluster.status
                    ELSE "UNKNOWN"
      /\ Finished(c) =>
           /\ call[c].pending = {}
           /\ call[c].op = Return(call[c].entries)

\* The describe of the second of two clusters has completed while that of
\* the first is still pending.
C27_Witness ==
  \E c \in Calls :
    /\ call[c].name = "list_eks_clusters"
    /\ call[c].pc = "awaitDescribes"
    /\ Len(call[c].names) = 2
    /\ call[c].pending = {1}
    /\ call[c].entries[2].name = call[c].names[2]
    /\ call[c].names[1] # call[c].names[2]

(* ------------------------------------------------------------------ *)
(* C28                                                                 *)
(* ------------------------------------------------------------------ *)

\* A non-negative whole number followed by one of "d", "h", "m" (the
\* numbers up to 59 cover every age of less than 60 days).
WholeAges == {ToString(k) \o u : k \in 0 .. 59, u \in {"d", "h", "m"}}

\* C28: every pod and service of a returned result that has a creation
\* timestamp, one later than the current time included, has as its age a
\* non-negative whole number followed by "d", "h" or "m".
C28_AgeNeverNegative ==
  \A c \in Calls :
    ReturnedDeployments(c) =>
      /\ \A i \in DOMAIN KeptPods(c) :
           KeptPods(c)[i].creationTimestamp # NoTimestamp =>
             call[c].op.value.pods[i].age \in WholeAges
      /\ \A i \in DOMAIN KeptServices(c) :
           KeptServices(c)[i].creationTimestamp # NoTimestamp =>
             call[c].op.value.services[i].age \in WholeAges

(* ------------------------------------------------------------------ *)
(* C29                                                                 *)
(* ------------------------------------------------------------------ *)

\* new EKSManager(credentials): config = { region: credentials.region,
\* credentials: { accessKeyId, secretAccessKey, sessionToken } }
StaticConfig(r) == [region |-> r, credentials |-> "static"]

\* A manager constructed with static credentials: both clients are built
\* from that one config.
StaticInit ==
  /\ \E r \in InitialRegions :
       /\ eksClient = StaticConfig(r)
       /\ stsClient = StaticConfig(r)
  /\ call = [c \in Calls |-> IdleCall]

StaticSpec == StaticInit /\ [][Next]_vars

\* C29: reconfiguring the control-plane client for a new region changes
\* only its region: a manager constructed with static credentials keeps
\* using them for every control-plane call after a region switch, and the
\* identity-service client keeps the configuration it was constructed
\* with.
C29_ReconfigurationKeepsCredentials ==
  /\ stsClient \in {StaticConfig(r) : r \in InitialRegions}
  /\ eksClient.credentials = stsClient.credentials

\* The identity-service client is never replaced.
StsClientKept == [][stsClient' = stsClient]_vars

====
